---- MODULE Spec2Model ----
(***************************************************************************)
(* Migration engine of react-native-knex (src/src/migrate/index.js).       *)
(*                                                                         *)
(* Several runners (Migrator instances in independent processes) call      *)
(* latest() and rollback() against one database.  The database holds the   *)
(* migrations table, the lock table and the row lock that a                *)
(* "select ... for update" takes until its transaction resolves.  Every    *)
(* database statement of a run is one step, so that the statements of      *)
(* different runners interleave the way the promise chains allow.          *)
(***************************************************************************)
EXTENDS Integers, Sequences, FiniteSets, TLC

\* ------------------------------------------------------------- bounds

NumRunners == 2
NumMigrations == 2
MaxInitApplied == 2
MaxRuns == 2
MaxConnections == 2
NumErrors == 2

\* The number of Pool objects one Client makes at most.
MaxPools == 2

\* The number of tokens of a statement, and of its bindings, at most.
MaxTokens == 3

Runners == 1..NumRunners

\* Keys of config.migrationModules.  Key 0 stands for a file name whose
\* extension is not in loadExtensions; keys 1..NumMigrations sort by number.
Keys == 0..NumMigrations

NullName == -1

\* ------------------------------------------------------ configuration

loadExtensions == {".co", ".coffee", ".eg", ".iced", ".js", ".litcoffee", ".ls", ".ts"}

extname(k) == IF k = 0 THEN ".txt" ELSE ".js"

PlainModule == [up |-> TRUE, down |-> TRUE, transaction |-> "unset"]

\* A module deviates from the plain shape by lacking an operation or by
\* carrying a boolean config.transaction.
ModuleShapes ==
  { PlainModule,
    [PlainModule EXCEPT !.up = FALSE],
    [PlainModule EXCEPT !.down = FALSE],
    [PlainModule EXCEPT !.transaction = "true"],
    [PlainModule EXCEPT !.transaction = "false"] }

\* The definition tables a behaviour may start with: at most one key other
\* than key 0 deviates from the plain shape.
ModuleTables ==
  { [k \in Keys |-> IF k = d THEN s ELSE PlainModule] :
      d \in 1..NumMigrations, s \in ModuleShapes }

\* ------------------------------------------------------------ helpers

Range(s) == { s[i] : i \in 1..Len(s) }

Reverse(s) == [i \in 1..Len(s) |-> s[Len(s) + 1 - i]]

Last(s) == s[Len(s)]

\* lodash difference: the values of a that are not in b, in a's order.
difference(a, b) ==
  LET keep(x) == x \notin Range(b) IN SelectSeq(a, keep)

\* lodash map(rows, "name")
mapName(rows) == [i \in 1..Len(rows) |-> rows[i].name]

RECURSIVE InsertSorted(_, _)
InsertSorted(x, s) ==
  IF s = << >> THEN << x >>
  ELSE IF x <= Head(s) THEN << x >> \o s
  ELSE << Head(s) >> \o InsertSorted(x, Tail(s))

\* Array.prototype.sort() on the names.
RECURSIVE sort(_)
sort(s) == IF s = << >> THEN << >> ELSE InsertSorted(Head(s), sort(Tail(s)))

\* Object.keys(migrationModules): the keys in the order they were added.
ObjectKeys == [i \in 1..(NumMigrations + 1) |-> NumMigrations + 1 - i]

Row(n, b) == [name |-> n, batch |-> b]

\* The migrations tables of n rows a behaviour may start with: distinct
\* names in ascending order, the batch numbers starting at 1 and growing by
\* at most one from row to row.
RECURSIVE AppliedOfLen(_)
AppliedOfLen(n) ==
  IF n = 0 THEN { << >> }
  ELSE { Append(p[1], Row(p[2], p[3])) :
           p \in { q \in AppliedOfLen(n - 1) \X Keys \X (1..n) :
                     IF q[1] = << >> THEN q[3] = 1
                     ELSE /\ q[2] > Last(q[1]).name
                          /\ q[3] \in {Last(q[1]).batch, Last(q[1]).batch + 1} } }

InitApplied == UNION { AppliedOfLen(n) : n \in 0..MaxInitApplied }

\* --------------------------------------------------------------- errors

NoError == [kind |-> "none", msg |-> "", mig |-> NullName]

Error(msg, mig) == [kind |-> "Error", msg |-> msg, mig |-> mig]

\* new LockError(err.message): a new object that keeps only the message.
LockError(err) == [kind |-> "MigrationLocked", msg |-> err.msg, mig |-> NullName]

\* ---------------------------------------------------------------- state

VARIABLES
  applied,          \* rows of the migrations table, in id order
  lockTable,        \* rows of the lock table (is_locked), in insertion order
  rowLock,          \* the runner whose open transaction holds the row lock, or 0
  migrationModules, \* config.migrationModules, shared by the runners
  pc,               \* where each runner's promise chain stands
  run,              \* the variables of each runner's current run
  trxState,         \* the uncommitted writes of each runner's outer transaction
  activeFileName,   \* this._activeMigration.fileName of each runner
  res,              \* how each runner's last run settled
  runs,             \* the number of runs started so far
  obs,              \* what an observer of each run has seen (history)
  ret,              \* what each runner's last status()/currentVersion() returned
  client            \* the Client: its pool, the events and the state of the last
                    \* query, the last call on the pool

vars == << applied, lockTable, rowLock, migrationModules, pc, run, trxState,
           activeFileName, res, runs, obs, ret, client >>

NoRun ==
  [direction |-> "none", disableTransactions |-> TRUE, trx |-> FALSE,
   migrations |-> << >>, batchNo |-> 0, log |-> << >>, err |-> NoError]

NoTrx == [ins |-> << >>, lock |-> -1]

NoRes == [status |-> "none", err |-> NoError]

NoObs ==
  [pre |-> << >>, chained |-> FALSE, upCount |-> 0, opLog |-> << >>,
   observed |-> -1, acquired |-> FALSE, relIssued |-> 0, relOk |-> FALSE,
   lockWrites |-> 0, reported |-> NullName, cleanup |-> "none",
   start |-> << >>, opMode |-> << >>, opDone |-> << >>]

NoRet == [op |-> "none", count |-> 0, version |-> << >>]

\* The connections the pool can create.
Connections == 1..MaxConnections

\* The error objects the driver and the pool can raise.
ErrorIds == 1..NumErrors

NoErr == [id |-> 0, class |-> "none", message |-> << >>]

\* The view of one call on the Client (a query, or a call on the pool):
\* how it settled, the error its caller received, and (history) the error
\* object the driver or the pool raised, the outcome of the pool and the
\* number of pool.acquire() calls.
NoCall ==
  [op |-> "none", status |-> "none", conn |-> 0, err |-> NoErr,
   obj |-> [sql |-> << >>, bindings |-> << >>],
   raised |-> NoErr, attempts |-> 0, outcome |-> "none"]

\* The request of the MSSQL driver that _query builds: the parameters given
\* to req.input in the order of the calls, the text given to req.query, and
\* (history) the statement as the caller passed it.
NoReq ==
  [inputs |-> << >>, sql |-> << >>, sent |-> FALSE,
   given |-> [sql |-> << >>, bindings |-> << >>]]

\* A timeout option of a configuration: a number, or not set.
Unset == [defined |-> FALSE, value |-> 0]

Millis(n) == [defined |-> TRUE, value |-> n]

\* this.config.acquireConnectionTimeout || 60000: the default.
DefaultAcquireConnectionTimeout == 60000

\* The numbers a caller writes for a timeout.
TimeoutValues == { -60000, -1000, 0, 1, 1000, 30000, 60000, 120000 }

TimeoutOptions == { Unset } \cup { Millis(n) : n \in TimeoutValues }

\* The configuration of a client: config.acquireConnectionTimeout and
\* config.pool.acquireTimeoutMillis.
NoConfig == [acquireConnectionTimeout |-> Unset, pool |-> [acquireTimeoutMillis |-> Unset]]

Configs ==
  { [acquireConnectionTimeout |-> a, pool |-> [acquireTimeoutMillis |-> p]] :
      a \in TimeoutOptions, p \in TimeoutOptions }

\* Math.min(...timeouts) of a list that is not empty.
RECURSIVE min(_)
min(timeouts) ==
  IF Len(timeouts) = 1 THEN Head(timeouts)
  ELSE LET rest == min(Tail(timeouts))
       IN IF Head(timeouts) < rest THEN Head(timeouts) ELSE rest

\* getPoolSettings: the timeouts that are not undefined; `||` takes the
\* default for an acquireConnectionTimeout that is not set or is 0.
timeouts(config) ==
  << IF config.acquireConnectionTimeout.defined
        /\ config.acquireConnectionTimeout.value # 0
     THEN config.acquireConnectionTimeout.value
     ELSE DefaultAcquireConnectionTimeout >>
  \o (IF config.pool.acquireTimeoutMillis.defined
      THEN << config.pool.acquireTimeoutMillis.value >> ELSE << >>)

\* getPoolSettings(config.pool): poolConfig.acquireTimeoutMillis.
getPoolSettings(config) == [acquireTimeoutMillis |-> min(timeouts(config))]

\* The Client after its constructor: initializePool has made the pool, no
\* connection is lent, no call has been made.  made counts the Pool
\* objects constructed so far: the pool of the client, when it has one, is
\* the one made last.
NewClient ==
  [pool |-> "pool", made |-> 1, used |-> {}, events |-> << >>,
   query |-> NoCall, call |-> NoCall, req |-> NoReq,
   config |-> NoConfig, settings |-> getPoolSettings(NoConfig)]

Init ==
  /\ applied \in InitApplied
  /\ lockTable = IF applied = << >> THEN << >> ELSE << 0 >>
  /\ rowLock = 0
  /\ migrationModules \in ModuleTables
  /\ pc = [r \in Runners |-> "idle"]
  /\ run = [r \in Runners |-> NoRun]
  /\ trxState = [r \in Runners |-> NoTrx]
  /\ activeFileName = [r \in Runners |-> NullName]
  /\ res = [r \in Runners |-> NoRes]
  /\ runs = 0
  /\ obs = [r \in Runners |-> NoObs]
  /\ ret = [r \in Runners |-> NoRet]
  /\ client = NewClient

\* ------------------------------------------------------- pure functions

\* Migrator._listAll: the keys with a recognised extension, sorted.
listAll ==
  LET ok(k) == extname(k) \in loadExtensions
  IN sort(SelectSeq(ObjectKeys, ok))

\* Mutant: the list is never validated.
validateMigrationList_skipped(all, completed) == TRUE

\* validateMigrationList: TRUE when no completed name lacks a definition.
validateMigrationList(all, completed) == difference(completed, all) = << >>

\* Migrator._useTransaction(migration, allTransactionsDisabled)
useTransaction(migration, allTransactionsDisabled) ==
  IF migration.transaction \in {"true", "false"}
  THEN migration.transaction = "true"
  ELSE ~allTransactionsDisabled

\* Migrator._latestBatchNumber: max(batch), 0 when there is no row.
RECURSIVE maxBatch(_)
maxBatch(rows) ==
  IF rows = << >> THEN 0
  ELSE LET m == maxBatch(Tail(rows))
       IN IF Head(rows).batch > m THEN Head(rows).batch ELSE m

\* Mutant: the number of rows instead of the highest batch.
latestBatchNumber_rowCount(rows) == Len(rows)

latestBatchNumber(rows) == maxBatch(rows)

\* Mutant: the batch filter is missing, every row is rolled back.
getLastBatch_everyRow(rows) == Reverse(rows)

\* Mutant: the rows of the highest batch in insertion order.
getLastBatch_ascending(rows) ==
  LET last(row) == row.batch = maxBatch(rows)
  IN SelectSeq(rows, last)

\* Migrator._getLastBatch: the rows of the highest batch, by id descending.
getLastBatch(rows) ==
  LET last(row) == row.batch = maxBatch(rows)
  IN Reverse(SelectSeq(rows, last))

\* Mutant: only the first migration of the list is validated.
invalidStructure_firstOnly(migrations) ==
  IF migrations = << >> THEN << >>
  ELSE IF migrationModules[Head(migrations)].up
          /\ migrationModules[Head(migrations)].down
  THEN << >>
  ELSE << Head(migrations) >>

\* Mutant: no migration is ever found invalid.
invalidStructure_none(migrations) == << >>

\* Migrator._validateMigrationStructure over the list: the names that lack
\* an up or a down function, in list order.
invalidStructure(migrations) ==
  LET bad(name) == ~(migrationModules[name].up /\ migrationModules[name].down)
  IN SelectSeq(migrations, bad)

\* ------------------------------------------------------------ the runs

\* The value of the LockRow; a row not yet created counts as FREE.
LockValue == IF lockTable = << >> THEN 0 ELSE Head(lockTable)

SetAll(rows, v) == [i \in 1..Len(rows) |-> v]

\* What the statements of runner r read: the committed rows and, inside
\* r's outer transaction, its own uncommitted inserts.
visibleApplied(r) ==
  IF run[r].trx THEN applied \o trxState[r].ins ELSE applied

\* Mutant: the overrides of the migrations are not looked at.
transactionForAll_globalOnly(disableTransactions, migrations) ==
  ~disableTransactions

\* latest(): the transaction-mode decision (one shared transaction for the
\* whole batch).  _useTransaction is called with one argument here.
transactionForAll(disableTransactions, migrations) ==
  /\ ~disableTransactions
  /\ \A i \in 1..Len(migrations) :
       useTransaction(migrationModules[migrations[i]], FALSE)

\* Mutant: the catch handler releases the lock whatever the error is.
releasesOnError_always(err) == TRUE

\* Mutant: the catch handler never releases the lock.
releasesOnError_never(err) == FALSE

\* _runBatch's catch handler: whether the failure makes it release the lock.
releasesOnError(err) == err.kind # "MigrationLocked"

\* Mutant: a failed cleanup release rejects with its own error.
rethrown_cleanupError(err, cleanupOk) ==
  IF cleanupOk THEN err ELSE [kind |-> "Error", msg |-> "release failed", mig |-> NullName]

\* What the promise of the run rejects with, given the failure and whether
\* the cleanup release succeeded: cleanupReady.finally(() => { throw error }).
rethrown(err, cleanupOk) == err

\* Mutant: "up" does not increment the batch number.
batchNumber_notIncremented(direction, rows) == latestBatchNumber(rows)

\* The batch number of the run: lastBatch + 1 for "up", lastBatch for "down".
batchNumber(direction, rows) ==
  IF direction = "up" THEN latestBatchNumber(rows) + 1
  ELSE latestBatchNumber(rows)

\* The start of a run: the configuration is set and the first statement of
\* _migrationData is issued.
Begin(r, direction, disable) ==
  /\ runs < MaxRuns
  /\ runs' = runs + 1
  /\ pc' = [pc EXCEPT ![r] = "ensureTable"]
  /\ run' = [run EXCEPT ![r] =
       [NoRun EXCEPT !.direction = direction, !.disableTransactions = disable]]
  /\ res' = [res EXCEPT ![r] = NoRes]
  /\ LET chained == /\ direction = "down"
                    /\ pc[r] = "done"
                    /\ res[r].status = "ok"
                    /\ run[r].direction = "up"
     IN obs' = [obs EXCEPT ![r] =
          [NoObs EXCEPT !.chained = chained,
                        !.start = applied,
                        !.pre = IF chained THEN obs[r].pre ELSE applied,
                        !.upCount = IF chained THEN Len(run[r].log) ELSE 0]]
  /\ UNCHANGED << applied, lockTable, rowLock, migrationModules, trxState,
                  activeFileName, ret, client >>

\* latest(config)
Latest(r) ==
  /\ pc[r] \in {"idle", "done"}
  /\ \E disable \in BOOLEAN : Begin(r, "up", disable)

\* rollback(config)
Rollback(r) ==
  /\ pc[r] \in {"idle", "done"}
  /\ \E disable \in BOOLEAN : Begin(r, "down", disable)

\* _ensureTable: the select on the lock table.
EnsureTable(r) ==
  /\ pc[r] = "ensureTable"
  /\ UNCHANGED << runs, ret, client >>
  /\ pc' = [pc EXCEPT ![r] =
       IF lockTable = << >> THEN "ensureInsert" ELSE "listCompleted"]
  /\ UNCHANGED << applied, lockTable, rowLock, migrationModules, run, trxState,
                  activeFileName, res, obs >>

\* _ensureTable: the insert of the row { is_locked: 0 } the select found missing.
EnsureInsert(r) ==
  /\ pc[r] = "ensureInsert"
  /\ UNCHANGED << runs, ret, client >>
  /\ lockTable' = Append(lockTable, 0)
  /\ pc' = [pc EXCEPT ![r] = "listCompleted"]
  /\ UNCHANGED << applied, rowLock, migrationModules, run, trxState,
                  activeFileName, res, obs >>

\* _migrationData, validateMigrationList and the body of latest()/rollback()
\* up to the first statement of the next promise.
ListCompleted(r) ==
  /\ pc[r] = "listCompleted"
  /\ UNCHANGED << runs, ret, client >>
  /\ LET completed == mapName(applied)
         migrations == difference(listAll, completed)
     IN IF ~validateMigrationList(listAll, completed)
        THEN /\ pc' = [pc EXCEPT ![r] = "done"]
             /\ res' = [res EXCEPT ![r] =
                  [status |-> "rejected", err |-> Error("corrupt", NullName)]]
             /\ run' = run
        ELSE IF run[r].direction = "up"
        THEN /\ pc' = [pc EXCEPT ![r] = "isLocked"]
             /\ run' = [run EXCEPT ![r].migrations = migrations,
                          ![r].trx = transactionForAll(
                                       run[r].disableTransactions, migrations)]
             /\ res' = res
        ELSE /\ pc' = [pc EXCEPT ![r] = "getLastBatch"]
             /\ UNCHANGED << run, res >>
  /\ UNCHANGED << applied, lockTable, rowLock, migrationModules, trxState,
                  activeFileName, obs >>

\* rollback(): _getLastBatch and map(migrations, "name").
GetLastBatch(r) ==
  /\ pc[r] = "getLastBatch"
  /\ UNCHANGED << runs, ret, client >>
  /\ run' = [run EXCEPT ![r].migrations = mapName(getLastBatch(applied))]
  /\ pc' = [pc EXCEPT ![r] = "isLocked"]
  /\ UNCHANGED << applied, lockTable, rowLock, migrationModules, trxState,
                  activeFileName, res, obs >>

\* Mutant: a plain select, which waits for no row lock.
forUpdateReady_plainSelect(r) == TRUE

\* Whether runner r's "select ... for update" may read the lock row now:
\* it waits while another transaction holds the row lock.
forUpdateReady(r) == rowLock = 0

\* _getLock: _isLocked(trx), the locking read, and the throw when the row
\* says locked.  A dedicated transaction is rolled back at once; the outer
\* transaction of latest() stays open until the run has settled.
IsLocked(r) ==
  /\ pc[r] = "isLocked"
  /\ UNCHANGED << runs, ret, client >>
  /\ forUpdateReady(r)
  /\ \E ok \in BOOLEAN :
       IF ~ok \/ lockTable = << >>
       THEN /\ run' = [run EXCEPT ![r].err = LockError(Error("select failed", NullName))]
            /\ pc' = [pc EXCEPT ![r] = "catch"]
            /\ UNCHANGED << rowLock, obs >>
       ELSE /\ obs' = [obs EXCEPT ![r].observed = Head(lockTable)]
            /\ IF Head(lockTable) # 0
               THEN /\ run' = [run EXCEPT ![r].err =
                         LockError(Error("Migration table is already locked", NullName))]
                    /\ pc' = [pc EXCEPT ![r] = "catch"]
                    /\ rowLock' = IF run[r].trx THEN r ELSE rowLock
               ELSE /\ rowLock' = r
                    /\ pc' = [pc EXCEPT ![r] = "lockMigrations"]
                    /\ run' = run
  /\ UNCHANGED << applied, lockTable, migrationModules, trxState,
                  activeFileName, res >>

\* _getLock: _lockMigrations(trx), and the commit of the dedicated transaction.
LockMigrations(r) ==
  /\ pc[r] = "lockMigrations"
  /\ UNCHANGED << runs, ret, client >>
  /\ \E ok \in BOOLEAN :
       IF ~ok
       THEN /\ run' = [run EXCEPT ![r].err = LockError(Error("update failed", NullName))]
            /\ pc' = [pc EXCEPT ![r] = "catch"]
            /\ rowLock' = IF run[r].trx THEN rowLock ELSE 0
            /\ UNCHANGED << lockTable, trxState, obs >>
       ELSE /\ pc' = [pc EXCEPT ![r] = "prepare"]
            /\ obs' = [obs EXCEPT ![r].acquired = TRUE, ![r].lockWrites = @ + 1]
            /\ run' = run
            /\ IF run[r].trx
               THEN /\ trxState' = [trxState EXCEPT ![r].lock = 1]
                    /\ UNCHANGED << lockTable, rowLock >>
               ELSE /\ lockTable' = SetAll(lockTable, 1)
                    /\ rowLock' = 0
                    /\ trxState' = trxState
  /\ UNCHANGED << applied, migrationModules, activeFileName, res >>

\* _runBatch between the lock and the first migration: the re-read of the
\* completed names (with an outer transaction only), the structure
\* validation, the batch number, and the each() of _waterfallBatch, which
\* sets _activeMigration.fileName for every name while it builds the chain.
Prepare(r) ==
  /\ pc[r] = "prepare"
  /\ UNCHANGED << runs, ret, client >>
  /\ LET completed == IF run[r].trx THEN mapName(visibleApplied(r)) ELSE << >>
         migrations == difference(run[r].migrations, completed)
         bad == invalidStructure(migrations)
     IN IF bad # << >>
        THEN /\ run' = [run EXCEPT ![r].migrations = migrations,
                          ![r].err = Error("invalid migration", Head(bad))]
             /\ pc' = [pc EXCEPT ![r] = "catch"]
             /\ activeFileName' = activeFileName
        ELSE /\ run' = [run EXCEPT ![r].migrations = migrations,
                          ![r].batchNo =
                             batchNumber(run[r].direction, visibleApplied(r))]
             /\ activeFileName' =
                  IF migrations = << >> THEN activeFileName
                  ELSE [activeFileName EXCEPT ![r] = Last(migrations)]
             /\ pc' = [pc EXCEPT ![r] =
                  IF migrations = << >> THEN "freeLock" ELSE "operation"]
  /\ UNCHANGED << applied, lockTable, rowLock, migrationModules, trxState,
                  res, obs >>

\* Mutant: the chain takes the migrations from the end of the list.
current_fromEnd(r) == run[r].migrations[Len(run[r].migrations) - Len(run[r].log)]

\* The migration the chain of _waterfallBatch has reached.
current(r) == run[r].migrations[Len(run[r].log) + 1]

\* Mutant: the outer transaction is not looked at.
dedicatedTransaction_ignoresOuter(trx, migration, disableTransactions) ==
  useTransaction(migration, disableTransactions)

\* _waterfallBatch: whether the operation of a migration is run through
\* this._transaction, that is in a transaction of its own.
dedicatedTransaction(trx, migration, disableTransactions) ==
  ~trx /\ useTransaction(migration, disableTransactions)

\* What the operation of the migration called name runs on.
operationMode(r, name) ==
  IF dedicatedTransaction(run[r].trx, migrationModules[name],
                          run[r].disableTransactions)
  THEN "dedicated"
  ELSE IF run[r].trx THEN "outer" ELSE "plain"

\* _waterfallBatch: migration[direction](...), directly or in _transaction.
Operation(r) ==
  /\ pc[r] = "operation"
  /\ UNCHANGED << runs, ret, client >>
  /\ \E ok \in BOOLEAN :
       /\ obs' = [obs EXCEPT
            ![r].opLog = Append(@, current(r)),
            ![r].opMode = Append(@, operationMode(r, current(r))),
            ![r].opDone = IF ok THEN Append(@, current(r)) ELSE @]
       /\ IF ok
          THEN /\ pc' = [pc EXCEPT ![r] = "record"]
               /\ run' = run
          ELSE /\ pc' = [pc EXCEPT ![r] = "catch"]
               /\ run' = [run EXCEPT ![r].err = Error("operation failed", current(r))]
  /\ UNCHANGED << applied, lockTable, rowLock, migrationModules, trxState,
                  activeFileName, res >>

\* The rows of the migrations table after the record mutation of name.
recordMutation(direction, rows, name, batchNo) ==
  IF direction = "up" THEN Append(rows, Row(name, batchNo))
  ELSE LET other(row) == row.name # name IN SelectSeq(rows, other)

\* _waterfallBatch: log.push(name) and the insert or delete of the record,
\* on the outer transaction or on the plain client.
Record(r) ==
  /\ pc[r] = "record"
  /\ UNCHANGED << runs, ret, client >>
  /\ LET name == current(r)
         more == Len(run[r].log) + 1 < Len(run[r].migrations)
     IN \E ok \in BOOLEAN :
          IF ok
          THEN /\ run' = [run EXCEPT ![r].log = Append(@, name)]
               /\ pc' = [pc EXCEPT ![r] = IF more THEN "operation" ELSE "freeLock"]
               /\ IF run[r].trx
                  THEN /\ trxState' = [trxState EXCEPT ![r].ins =
                            recordMutation(run[r].direction, @, name, run[r].batchNo)]
                       /\ applied' = applied
                  ELSE /\ applied' =
                            recordMutation(run[r].direction, applied, name, run[r].batchNo)
                       /\ trxState' = trxState
          ELSE /\ run' = [run EXCEPT ![r].log = Append(@, name),
                            ![r].err = Error("record failed", name)]
               /\ pc' = [pc EXCEPT ![r] = "catch"]
               /\ UNCHANGED << applied, trxState >>
  /\ UNCHANGED << lockTable, rowLock, migrationModules, activeFileName, res, obs >>

\* Whether runner r's plain update of the lock row may run now: it waits
\* while another runner's transaction holds the row lock.
updateReady(r) == rowLock \in {0, r}

\* _runBatch: .tap(() => this._freeLock(trx)) after the batch succeeded.
FreeLock(r) ==
  /\ pc[r] = "freeLock"
  /\ UNCHANGED << runs, ret, client >>
  /\ updateReady(r)
  /\ \E ok \in BOOLEAN :
       IF ~ok
       THEN /\ run' = [run EXCEPT ![r].err = Error("release failed", NullName)]
            /\ pc' = [pc EXCEPT ![r] = "catch"]
            /\ obs' = [obs EXCEPT ![r].relIssued = @ + 1]
            /\ UNCHANGED << lockTable, trxState, res >>
       ELSE IF run[r].trx
       THEN /\ trxState' = [trxState EXCEPT ![r].lock = 0]
            /\ pc' = [pc EXCEPT ![r] = "commit"]
            /\ obs' = [obs EXCEPT ![r].relIssued = @ + 1, ![r].lockWrites = @ + 1]
            /\ UNCHANGED << lockTable, run, res >>
       ELSE /\ lockTable' = SetAll(lockTable, 0)
            /\ pc' = [pc EXCEPT ![r] = "done"]
            /\ res' = [res EXCEPT ![r] = [status |-> "ok", err |-> NoError]]
            /\ obs' = [obs EXCEPT ![r].relIssued = @ + 1, ![r].relOk = TRUE,
                                   ![r].lockWrites = @ + 1]
            /\ UNCHANGED << run, trxState >>
  /\ UNCHANGED << applied, rowLock, migrationModules, activeFileName >>

\* latest(): the commit of the outer transaction once _runBatch resolved.
Commit(r) ==
  /\ pc[r] = "commit"
  /\ UNCHANGED << runs, ret, client >>
  /\ applied' = applied \o trxState[r].ins
  /\ lockTable' = IF trxState[r].lock = -1 THEN lockTable
                  ELSE SetAll(lockTable, trxState[r].lock)
  /\ rowLock' = 0
  /\ trxState' = [trxState EXCEPT ![r] = NoTrx]
  /\ pc' = [pc EXCEPT ![r] = "done"]
  /\ res' = [res EXCEPT ![r] = [status |-> "ok", err |-> NoError]]
  /\ obs' = [obs EXCEPT ![r].relOk = TRUE]
  /\ UNCHANGED << migrationModules, run, activeFileName >>

\* Mutant: the rows written inside the transaction survive its rollback.
transactionRollback_keepsWrites(rows, ins) == rows \o ins

\* latest(): this.knex.transaction(...) is rejected by the batch, which
\* rolls the transaction back: the committed rows stay as they are and the
\* rows written inside the transaction are dropped.
transactionRollback(rows, ins) == rows

\* _runBatch's catch handler, and the rollback of the outer transaction
\* that follows the rejection.
Catch(r) ==
  /\ pc[r] = "catch"
  /\ UNCHANGED << runs, ret, client >>
  /\ IF releasesOnError(run[r].err) THEN updateReady(r) ELSE TRUE
  /\ \E ok \in BOOLEAN :
       /\ IF releasesOnError(run[r].err)
          THEN /\ obs' = [obs EXCEPT
                    ![r].reported = activeFileName[r],
                    ![r].relIssued = @ + 1,
                    ![r].relOk = @ \/ (ok /\ ~run[r].trx),
                    ![r].lockWrites = IF ok THEN @ + 1 ELSE @,
                    ![r].cleanup = IF ok THEN "ok" ELSE "failed"]
               /\ lockTable' = IF ok /\ ~run[r].trx
                               THEN SetAll(lockTable, 0) ELSE lockTable
          ELSE UNCHANGED << obs, lockTable >>
       /\ res' = [res EXCEPT ![r] =
            [status |-> "rejected", err |-> rethrown(run[r].err, ok)]]
  /\ rowLock' = IF rowLock = r THEN 0 ELSE rowLock
  /\ applied' = IF run[r].trx
                THEN transactionRollback(applied, trxState[r].ins)
                ELSE applied
  /\ trxState' = [trxState EXCEPT ![r] = NoTrx]
  /\ pc' = [pc EXCEPT ![r] = "done"]
  /\ UNCHANGED << migrationModules, run, activeFileName >>

Step(r) ==
  \/ Latest(r)
  \/ Rollback(r)
  \/ EnsureTable(r)
  \/ EnsureInsert(r)
  \/ ListCompleted(r)
  \/ GetLastBatch(r)
  \/ IsLocked(r)
  \/ LockMigrations(r)
  \/ Prepare(r)
  \/ Operation(r)
  \/ Record(r)
  \/ FreeLock(r)
  \/ Commit(r)
  \/ Catch(r)

Next == \E r \in Runners : Step(r)

\* Several runners, interleaved statement by statement.
Spec == Init /\ [][Next]_vars

\* One runner alone on the database.
NextSolo == Step(1)

SpecSolo == Init /\ [][NextSolo]_vars

\* ------------------------------------------- forceFreeMigrationsLock

\* Mutant: a lock that is held is left alone.
forceFreeMigrationsLock_checksHolder(exist, rows) == rows

\* forceFreeMigrationsLock: exist && this._freeLock(), an update of every
\* row of the lock table to is_locked = 0.
forceFreeMigrationsLock(exist, rows) == IF exist THEN SetAll(rows, 0) ELSE rows

\* forceFreeMigrationsLock(config): the call, up to the hasTable statement.
ForceFreeMigrationsLock(r) ==
  /\ pc[r] \in {"idle", "done"}
  /\ pc' = [pc EXCEPT ![r] = "forceFree"]
  /\ run' = [run EXCEPT ![r] = [NoRun EXCEPT !.direction = "force"]]
  /\ res' = [res EXCEPT ![r] = NoRes]
  /\ obs' = [obs EXCEPT ![r] = [NoObs EXCEPT !.pre = applied]]
  /\ UNCHANGED << applied, lockTable, rowLock, migrationModules, trxState,
                  activeFileName, runs, ret, client >>

\* forceFreeMigrationsLock: the answer of hasTable and, when the table
\* exists, the update of _freeLock on the plain client.  A lock table that
\* has no row stands for a table that may not exist yet.
ForceFree(r) ==
  /\ pc[r] = "forceFree"
  /\ \E exist \in (IF lockTable = << >> THEN BOOLEAN ELSE {TRUE}) :
       /\ exist => updateReady(r)
       /\ \E ok \in BOOLEAN :
            /\ lockTable' = IF ok THEN forceFreeMigrationsLock(exist, lockTable)
                            ELSE lockTable
            /\ res' = [res EXCEPT ![r] =
                 IF ok \/ ~exist THEN [status |-> "ok", err |-> NoError]
                 ELSE [status |-> "rejected",
                       err |-> Error("release failed", NullName)]]
            /\ obs' = [obs EXCEPT ![r].observed = LockValue,
                                   ![r].relIssued = IF exist THEN 1 ELSE 0,
                                   ![r].relOk = exist /\ ok]
  /\ pc' = [pc EXCEPT ![r] = "done"]
  /\ UNCHANGED << applied, rowLock, migrationModules, run, trxState,
                  activeFileName, runs, ret, client >>

\* The runners, and an operator who may force the lock free at any time.
NextForce ==
  \E r \in Runners :
    \/ Step(r)
    \/ ForceFreeMigrationsLock(r)
    \/ ForceFree(r)

SpecForce == Init /\ [][NextForce]_vars

\* --------------------------------------------- status, currentVersion

Digits == << "0", "1", "2", "3", "4", "5", "6", "7", "8", "9" >>

Zeros(n) == [i \in 1..n |-> "0"]

\* The file name of key k, one character per element: "1000_add_m.js",
\* "200_add_m.js", ... for the keys 1, 2, ..., and "0_m.txt" for key 0.  The
\* names sort (as strings) in the order of their keys.
fileName(k) ==
  IF k = 0 THEN << "0", "_", "m", ".", "t", "x", "t" >>
  ELSE << Digits[k + 1] >> \o Zeros(NumMigrations + 1 - k)
         \o << "_", "a", "d", "d", "_", "m", ".", "j", "s" >>

\* The UTF-16 code unit of a character of a file name.
codeUnit(c) ==
  CASE c = "." -> 46
    [] c \in Range(Digits) -> 48 + (CHOOSE i \in 0..9 : Digits[i + 1] = c)
    [] c = "_" -> 95
    [] OTHER -> 97 + (CHOOSE i \in 0..25 :
                        << "a", "b", "c", "d", "e", "f", "g", "h", "i", "j",
                           "k", "l", "m", "n", "o", "p", "q", "r", "s", "t",
                           "u", "v", "w", "x", "y", "z" >>[i + 1] = c)

\* value.split("_")[0]: the characters before the first "_", the whole
\* string when it has none.
RECURSIVE splitHead(_)
splitHead(value) ==
  IF value = << >> \/ Head(value) = "_" THEN << >>
  ELSE << Head(value) >> \o splitHead(Tail(value))

\* a > b on strings: by code unit, a proper prefix being the smaller.
RECURSIVE gt(_, _)
gt(a, b) ==
  IF a = << >> THEN FALSE
  ELSE IF b = << >> THEN TRUE
  ELSE IF Head(a) # Head(b) THEN codeUnit(Head(a)) > codeUnit(Head(b))
  ELSE gt(Tail(a), Tail(b))

\* The value undefined.
Undefined == << "undefined" >>

None == << "n", "o", "n", "e" >>

\* Mutant: the first value instead of the greatest.
max_first(values) == IF values = << >> THEN Undefined ELSE Head(values)

\* lodash max: undefined for an empty array, else the first greatest value
\* under ">".
RECURSIVE max(_)
max(values) ==
  IF values = << >> THEN Undefined
  ELSE LET rest == max(Tail(values))
       IN IF rest = Undefined \/ ~gt(rest, Head(values)) THEN Head(values)
          ELSE rest

\* currentVersion: the value the promise resolves with, given the names of
\* _listCompleted.
currentVersion(completed) ==
  LET val == max([i \in 1..Len(completed) |-> splitHead(fileName(completed[i]))])
  IN IF val = Undefined THEN None ELSE val

\* Mutant: the number of applied records only.
status_dbLength(db, code) == Len(db)

\* status: the value the promise resolves with, given the rows of the
\* migrations table and the list of _listAll.
status(db, code) == Len(db) - Len(code)

\* status(config): the select on the migrations table, _listAll and the
\* subtraction.
Status(r) ==
  /\ pc[r] \in {"idle", "done"}
  /\ pc' = [pc EXCEPT ![r] = "done"]
  /\ run' = [run EXCEPT ![r] = [NoRun EXCEPT !.direction = "status"]]
  /\ obs' = [obs EXCEPT ![r] = [NoObs EXCEPT !.pre = applied]]
  /\ \E ok \in BOOLEAN :
       IF ok
       THEN /\ res' = [res EXCEPT ![r] = [status |-> "ok", err |-> NoError]]
            /\ ret' = [ret EXCEPT ![r] =
                 [NoRet EXCEPT !.op = "status", !.count = status(applied, listAll)]]
       ELSE /\ res' = [res EXCEPT ![r] =
                 [status |-> "rejected", err |-> Error("select failed", NullName)]]
            /\ ret' = [ret EXCEPT ![r] = NoRet]
  /\ UNCHANGED << applied, lockTable, rowLock, migrationModules, trxState,
                  activeFileName, runs, client >>

\* currentVersion(config): _listCompleted on the plain client, and the
\* maximum of the name prefixes.
CurrentVersion(r) ==
  /\ pc[r] \in {"idle", "done"}
  /\ pc' = [pc EXCEPT ![r] = "done"]
  /\ run' = [run EXCEPT ![r] = [NoRun EXCEPT !.direction = "currentVersion"]]
  /\ obs' = [obs EXCEPT ![r] = [NoObs EXCEPT !.pre = applied]]
  /\ \E ok \in BOOLEAN :
       IF ok
       THEN /\ res' = [res EXCEPT ![r] = [status |-> "ok", err |-> NoError]]
            /\ ret' = [ret EXCEPT ![r] =
                 [NoRet EXCEPT !.op = "currentVersion",
                               !.version = currentVersion(mapName(applied))]]
       ELSE /\ res' = [res EXCEPT ![r] =
                 [status |-> "rejected", err |-> Error("select failed", NullName)]]
            /\ ret' = [ret EXCEPT ![r] = NoRet]
  /\ UNCHANGED << applied, lockTable, rowLock, migrationModules, trxState,
                  activeFileName, runs, client >>

\* One runner alone, who also asks for the status and the current version.
NextQuery ==
  \/ Step(1)
  \/ Status(1)
  \/ CurrentVersion(1)

SpecQuery == Init /\ [][NextQuery]_vars

\* ------------------------------------------------------------ Client

\* The statements a caller passes to query(): the text, token by token,
\* and the bindings.
Statements ==
  { [sql |-> << "select", "?" >>, bindings |-> << >>],
    [sql |-> << "insert", "?", "?" >>, bindings |-> << "a", "b" >>] }

\* The identity of an error object the Client creates itself.
FreshId == NumErrors + 1

\* The error object number e that the driver rejects a statement with.
DriverError(e) == [id |-> e, class |-> "Error", message |-> << "driver", e >>]

\* The errors pool.acquire() rejects with: tarn's TimeoutError when the
\* acquire timed out, or the error of a failed create (propagateCreateError).
PoolError(e, class) == [id |-> e, class |-> class, message |-> << "pool", e >>]

\* Client.positionBindings of the base client.
positionBindings(sql) == sql

\* Client.prepBindings of the base client.
prepBindings(bindings) == bindings

\* Client._escapeBinding of a string value.
escapeBinding(value) == << "'", value, "'" >>

\* Client._formatQuery: every "?" is replaced by the next binding, escaped,
\* while bindings are left.
RECURSIVE formatQuery(_, _)
formatQuery(sql, bindings) ==
  IF sql = << >> THEN << >>
  ELSE IF Head(sql) = "?" /\ bindings # << >>
  THEN escapeBinding(Head(bindings)) \o formatQuery(Tail(sql), Tail(bindings))
  ELSE << Head(sql) >> \o formatQuery(Tail(sql), bindings)

\* Mutant: the failure is wrapped in a new error object.
queryError_newObject(err, obj) ==
  [id |-> FreshId, class |-> "Error",
   message |-> formatQuery(obj.sql, obj.bindings) \o << " - " >> \o err.message]

\* query()'s catch handler: the message of the error object is extended
\* in place and the same object is thrown again.
queryError(err, obj) ==
  [err EXCEPT !.message = formatQuery(obj.sql, obj.bindings) \o << " - " >> \o @]

\* Mutant: every rejection of the pool passes through unchanged.
acquireError_passThrough(err) == err

\* acquireConnection's .catch(TimeoutError, ...): a TimeoutError of the pool
\* becomes a new Promise.TimeoutError, any other error passes through.
acquireError(err) ==
  IF err.class = "TimeoutError"
  THEN [id |-> FreshId, class |-> "Promise.TimeoutError",
        message |-> << "Knex: Timeout acquiring a connection" >>]
  ELSE err

\* query(connection, obj): positionBindings, the 'query' event, and the
\* statement handed to _query.
Query ==
  /\ client.query.status # "pending"
  /\ \E c \in client.used : \E obj \in Statements :
       client' = [client EXCEPT
         !.events = << "query", "sent" >>,
         !.query = [NoCall EXCEPT
           !.op = "query", !.status = "pending", !.conn = c,
           !.obj = [sql |-> positionBindings(obj.sql),
                    bindings |-> prepBindings(obj.bindings)]]]
  /\ UNCHANGED << applied, lockTable, rowLock, migrationModules, pc, run,
                  trxState, activeFileName, res, runs, obs, ret >>

\* query(): _query resolves, or it rejects and the catch handler runs.
QuerySettle ==
  /\ client.query.status = "pending"
  /\ \/ client' = [client EXCEPT
           !.events = Append(@, "resolved"),
           !.query.status = "resolved"]
     \/ \E e \in ErrorIds :
          client' = [client EXCEPT
            !.events = @ \o << "query-error", "rejected" >>,
            !.query.status = "rejected",
            !.query.raised = DriverError(e),
            !.query.err = queryError(DriverError(e), client.query.obj)]
  /\ UNCHANGED << applied, lockTable, rowLock, migrationModules, pc, run,
                  trxState, activeFileName, res, runs, obs, ret >>

\* acquireConnection(): one pool.acquire(), which lends a connection, times
\* out, or fails with another error.
AcquireConnection ==
  /\ IF client.pool = "undefined"
     THEN client' = [client EXCEPT
            !.call = [NoCall EXCEPT
              !.op = "acquireConnection", !.status = "rejected",
              !.outcome = "no pool",
              !.err = [id |-> FreshId, class |-> "Error",
                       message |-> << "Unable to acquire a connection" >>]]]
     ELSE \/ \E c \in Connections \ client.used :
               client' = [client EXCEPT
                      !.used = @ \cup {c},
                 !.call = [NoCall EXCEPT
                   !.op = "acquireConnection", !.status = "resolved",
                   !.outcome = "connection", !.attempts = 1, !.conn = c]]
          \/ \E e \in ErrorIds : \E class \in {"TimeoutError", "Error"} :
               client' = [client EXCEPT
                      !.call = [NoCall EXCEPT
                   !.op = "acquireConnection", !.status = "rejected",
                   !.outcome = class, !.attempts = 1,
                   !.raised = PoolError(e, class),
                   !.err = acquireError(PoolError(e, class))]]
  /\ UNCHANGED << applied, lockTable, rowLock, migrationModules, pc, run,
                  trxState, activeFileName, res, runs, obs, ret >>

\* releaseConnection(connection): this.pool.release(connection), which
\* throws a TypeError when this.pool is undefined and otherwise tells
\* whether the pool took the connection back.
ReleaseConnection ==
  /\ \E c \in Connections :
       IF client.pool = "undefined"
       THEN client' = [client EXCEPT
                !.call = [NoCall EXCEPT
                !.op = "releaseConnection", !.status = "threw", !.conn = c,
                !.outcome = "no pool",
                !.err = [id |-> FreshId, class |-> "TypeError",
                         message |-> << "Cannot read property 'release' of undefined" >>]]]
       ELSE client' = [client EXCEPT
                !.used = @ \ {c},
              !.call = [NoCall EXCEPT
                !.op = "releaseConnection", !.status = "resolved", !.conn = c,
                !.outcome = IF c \in client.used THEN "released" ELSE "refused"]]
  /\ UNCHANGED << applied, lockTable, rowLock, migrationModules, pc, run,
                  trxState, activeFileName, res, runs, obs, ret >>

\* destroy(): pool.destroy() and, when it resolved, this.pool = undefined.
Destroy ==
  /\ IF client.pool = "undefined"
     THEN client' = [client EXCEPT
            !.call = [NoCall EXCEPT !.op = "destroy", !.status = "resolved",
                                    !.outcome = "no pool"]]
     ELSE \/ client' = [client EXCEPT
                  !.pool = "undefined",
               !.used = {},
               !.call = [NoCall EXCEPT !.op = "destroy", !.status = "resolved",
                                       !.outcome = "destroyed"]]
          \/ \E e \in ErrorIds :
               client' = [client EXCEPT
                      !.call = [NoCall EXCEPT
                   !.op = "destroy", !.status = "rejected",
                   !.outcome = "Error",
                   !.raised = PoolError(e, "Error"),
                   !.err = PoolError(e, "Error")]]
  /\ UNCHANGED << applied, lockTable, rowLock, migrationModules, pc, run,
                  trxState, activeFileName, res, runs, obs, ret >>

\* Mutant: a new pool is made whether or not the client has one.
initializePool_replaces(c) ==
  [c EXCEPT
     !.pool = "pool", !.made = @ + 1, !.used = {},
     !.settings = getPoolSettings(c.config),
     !.call = [NoCall EXCEPT !.op = "initializePool", !.status = "returned",
                             !.outcome = "created"]]

\* initializePool(config): a warning and nothing else when the client has
\* a pool, this.pool = new Pool(...) otherwise.
initializePool(c) ==
  IF c.pool = "pool"
  THEN [c EXCEPT
          !.call = [NoCall EXCEPT !.op = "initializePool", !.status = "returned",
                                  !.outcome = "warned"]]
  ELSE [c EXCEPT
          !.pool = "pool", !.made = @ + 1, !.used = {},
          !.settings = getPoolSettings(c.config),
          !.call = [NoCall EXCEPT !.op = "initializePool", !.status = "returned",
                                  !.outcome = "created"]]

InitializePool ==
  /\ client.made < MaxPools \/ client.pool = "pool"
  /\ client' = initializePool(client)
  /\ UNCHANGED << applied, lockTable, rowLock, migrationModules, pc, run,
                  trxState, activeFileName, res, runs, obs, ret >>

\* A Client on its own: no migration runs.
InitClient ==
  /\ applied = << >>
  /\ lockTable = << >>
  /\ rowLock = 0
  /\ migrationModules = [k \in Keys |-> PlainModule]
  /\ pc = [r \in Runners |-> "idle"]
  /\ run = [r \in Runners |-> NoRun]
  /\ trxState = [r \in Runners |-> NoTrx]
  /\ activeFileName = [r \in Runners |-> NullName]
  /\ res = [r \in Runners |-> NoRes]
  /\ runs = 0
  /\ obs = [r \in Runners |-> NoObs]
  /\ ret = [r \in Runners |-> NoRet]
  /\ client = NewClient

NextClient ==
  \/ Query
  \/ QuerySettle
  \/ AcquireConnection
  \/ ReleaseConnection
  \/ Destroy
  \/ InitializePool

SpecClient == InitClient /\ [][NextClient]_vars

\* A Client constructed with any configuration of the timeouts: its
\* constructor has called initializePool, and with it getPoolSettings.
InitPool ==
  /\ applied = << >>
  /\ lockTable = << >>
  /\ rowLock = 0
  /\ migrationModules = [k \in Keys |-> PlainModule]
  /\ pc = [r \in Runners |-> "idle"]
  /\ run = [r \in Runners |-> NoRun]
  /\ trxState = [r \in Runners |-> NoTrx]
  /\ activeFileName = [r \in Runners |-> NullName]
  /\ res = [r \in Runners |-> NoRes]
  /\ runs = 0
  /\ obs = [r \in Runners |-> NoObs]
  /\ ret = [r \in Runners |-> NoRet]
  /\ \E config \in Configs :
       client = [NewClient EXCEPT !.config = config,
                                  !.settings = getPoolSettings(config)]

NextPool ==
  \/ InitializePool
  \/ Destroy

SpecPool == InitPool /\ [][NextPool]_vars

\* ------------------------------------------------------ MSSQL dialect

\* The decimal digits of n, as `${n}` writes them.
RECURSIVE str(_)
str(n) ==
  IF n < 10 THEN << Digits[n + 1] >>
  ELSE str(n \div 10) \o << Digits[(n % 10) + 1] >>

\* Mutant: the placeholders are numbered from 1.
placeholder_fromOne(questionCount) == << "@", "p" >> \o str(questionCount + 1)

\* positionBindings of the MSSQL client: `@p${questionCount}`.
placeholder(questionCount) == << "@", "p" >> \o str(questionCount)

\* sql.replace(/\?/g, ...): every "?" from left to right, questionCount
\* incremented before each replacement.
RECURSIVE replace(_, _)
replace(sql, questionCount) ==
  IF sql = << >> THEN << >>
  ELSE IF Head(sql) = "?"
  THEN placeholder(questionCount + 1) \o replace(Tail(sql), questionCount + 1)
  ELSE << Head(sql) >> \o replace(Tail(sql), questionCount)

\* Client_MSSQL.positionBindings: questionCount starts at -1.
positionBindings_MSSQL(sql) == replace(sql, -1)

\* The values a caller binds: strings, and numbers by the range that
\* _setReqInput tells apart (a fraction, an integer within SQL_INT4, a
\* larger integer within SQL_BIGINT_SAFE, an integer beyond it).
BindingValues ==
  { [type |-> "string", range |-> "none", id |-> "a"],
    [type |-> "string", range |-> "none", id |-> "b"],
    [type |-> "number", range |-> "fraction", id |-> "c"],
    [type |-> "number", range |-> "int4", id |-> "d"],
    [type |-> "number", range |-> "safe", id |-> "e"],
    [type |-> "number", range |-> "unsafe", id |-> "f"] }

\* _setReqInput throws for an integer that is not a safe integer.
throws(binding) == binding.type = "number" /\ binding.range = "unsafe"

\* _setReqInput(req, i, binding): the call req.input(`p${i}`, [type,] binding).
setReqInput(i, binding) ==
  [name |-> << "p" >> \o str(i),
   type |-> IF binding.type # "number" THEN "none"
            ELSE IF binding.range = "fraction" THEN "Decimal"
            ELSE IF binding.range = "safe" THEN "BigInt"
            ELSE "Int",
   value |-> binding]

\* _query: for (i = 0; i < bindings.length; i++) _setReqInput(req, i,
\* bindings[i]), up to the first binding for which it throws.
RECURSIVE reqInputs(_, _)
reqInputs(bindings, i) ==
  IF i >= Len(bindings) \/ throws(bindings[i + 1]) THEN << >>
  ELSE << setReqInput(i, bindings[i + 1]) >> \o reqInputs(bindings, i + 1)

\* The statements a caller passes to the MSSQL client: any text of "?"
\* and other tokens, with any bindings.
TokensMSSQL == { "?", "x" }

SeqsUpTo(S, n) == UNION { [1..k -> S] : k \in 0..n }

StatementsMSSQL ==
  { [sql |-> t, bindings |-> b] :
      t \in SeqsUpTo(TokensMSSQL, MaxTokens), b \in SeqsUpTo(BindingValues, MaxTokens) }

\* query(connection, obj) of the MSSQL client: Client.query with the
\* positionBindings and the _query of the dialect.  _query resolves at once
\* for an empty text, rejects when _setReqInput throws, and otherwise hands
\* the text to req.query and waits for its callback.
QueryMSSQL ==
  /\ client.query.status # "pending"
  /\ \E c \in client.used :
       LET given == client.req.given
           obj == [sql |-> positionBindings_MSSQL(given.sql),
                   bindings |-> prepBindings(given.bindings)]
           call == [NoCall EXCEPT !.op = "query", !.conn = c, !.obj = obj]
           inputs == reqInputs(obj.bindings, 0)
           thrown == [id |-> FreshId, class |-> "Error",
                      message |-> << "Bigint must be safe integer" >>]
       IN IF obj.sql = << >>
          THEN client' = [client EXCEPT
                 !.events = << "query", "resolved" >>,
                 !.query = [call EXCEPT !.status = "resolved"],
                 !.req = [NoReq EXCEPT !.given = given]]
          ELSE IF Len(inputs) < Len(obj.bindings)
          THEN client' = [client EXCEPT
                 !.events = << "query", "query-error", "rejected" >>,
                 !.query = [call EXCEPT !.status = "rejected",
                              !.raised = thrown,
                              !.err = queryError(thrown, obj)],
                 !.req = [NoReq EXCEPT !.inputs = inputs, !.given = given]]
          ELSE client' = [client EXCEPT
                 !.events = << "query", "sent" >>,
                 !.query = [call EXCEPT !.status = "pending"],
                 !.req = [inputs |-> inputs, sql |-> obj.sql, sent |-> TRUE,
                          given |-> given]]
  /\ UNCHANGED << applied, lockTable, rowLock, migrationModules, pc, run,
                  trxState, activeFileName, res, runs, obs, ret >>

\* A client of the MSSQL dialect on its own, with one connection lent and
\* the statement that its caller is going to pass.
InitMSSQL ==
  /\ applied = << >>
  /\ lockTable = << >>
  /\ rowLock = 0
  /\ migrationModules = [k \in Keys |-> PlainModule]
  /\ pc = [r \in Runners |-> "idle"]
  /\ run = [r \in Runners |-> NoRun]
  /\ trxState = [r \in Runners |-> NoTrx]
  /\ activeFileName = [r \in Runners |-> NullName]
  /\ res = [r \in Runners |-> NoRes]
  /\ runs = 0
  /\ obs = [r \in Runners |-> NoObs]
  /\ ret = [r \in Runners |-> NoRet]
  /\ \E c \in Connections : \E given \in StatementsMSSQL :
       client = [NewClient EXCEPT !.used = {c}, !.req.given = given]

NextMSSQL ==
  \/ QueryMSSQL
  \/ QuerySettle

SpecMSSQL == InitMSSQL /\ [][NextMSSQL]_vars

\* ------------------------------------------------------------ the claims

Settled(r) == pc[r] = "done"

Rejected(r) == Settled(r) /\ res[r].status = "rejected"

Fulfilled(r) == Settled(r) /\ res[r].status = "ok"

\* Runner r is between a successful acquire and the end of its run.
Holding(r) == obs[r].acquired /\ ~Settled(r)

LockHeldError == LockError(Error("Migration table is already locked", NullName))

AppliedNames == Range(mapName(applied))

\* C1: at no time are two runners both between a successful acquire and
\* the end of their run, and an acquire that read the LockRow as HELD did
\* not succeed: it fails with the lock-held error.
C1_AtMostOneHolder ==
  /\ \A r1 \in Runners : \A r2 \in Runners :
       r1 # r2 => ~(Holding(r1) /\ Holding(r2))
  /\ \A r \in Runners :
       obs[r].observed = 1 =>
         /\ ~obs[r].acquired
         /\ pc[r] \in {"catch", "done"}
         /\ run[r].err = LockHeldError

\* C1 witness: one runner holds the lock while the acquire of another has
\* failed with the lock-held error.
C1_Witness ==
  \E r1 \in Runners : \E r2 \in Runners :
    /\ Holding(r1)
    /\ Rejected(r2)
    /\ obs[r2].observed = 1
    /\ res[r2].err = LockHeldError

\* The index in the pending list of the migration whose operation failed.
FailedIndex(r) == Len(run[r].log) + 1

OperationFailed(r) == Rejected(r) /\ res[r].err.msg = "operation failed"

\* C2: when latest() runs without an outer transaction and the operation
\* of the k-th pending migration fails, the applied records are the
\* previous records plus one record (of the new batch) for each migration
\* before k, in order; migration k and the later ones have no record, and
\* no operation after the k-th was started.
C2_PrefixApplied ==
  \A r \in Runners :
    (OperationFailed(r) /\ run[r].direction = "up" /\ ~run[r].trx) =>
      LET k == FailedIndex(r)
          pending == run[r].migrations
      IN /\ applied = obs[r].pre \o
              [i \in 1..(k - 1) |-> Row(pending[i], maxBatch(obs[r].pre) + 1)]
         /\ \A i \in k..Len(pending) : pending[i] \notin AppliedNames
         /\ obs[r].opLog = SubSeq(pending, 1, k)

\* C2 witness: the second of two pending migrations failed, the first one
\* is recorded.
C2_Witness ==
  \E r \in Runners :
    /\ OperationFailed(r)
    /\ run[r].direction = "up"
    /\ ~run[r].trx
    /\ FailedIndex(r) = 2
    /\ Len(applied) = Len(obs[r].pre) + 1

\* C3 as stated: every run that acquired the lock has issued a release
\* when it ends, and the LockRow is FREE after it.
C3_FreeAfterEveryRun ==
  \A r \in Runners :
    (Settled(r) /\ obs[r].acquired) =>
      (obs[r].relIssued >= 1 /\ LockValue = 0)

\* C3 amended: every run that acquired the lock has issued a release when
\* it ends; the LockRow is FREE after it when one of its release statements
\* succeeded or when the run was made in the outer transaction of latest(),
\* and it is still HELD when every release failed outside a transaction.
C3_ReleaseIssued ==
  \A r \in Runners :
    (Settled(r) /\ obs[r].acquired) =>
      /\ obs[r].relIssued >= 1
      /\ (obs[r].relOk \/ run[r].trx) => LockValue = 0
      /\ (~obs[r].relOk /\ ~run[r].trx) => LockValue = 1

\* C3 witness: a run that failed after it acquired the lock has released it.
C3_Witness ==
  \E r \in Runners :
    /\ Rejected(r)
    /\ obs[r].acquired
    /\ obs[r].relOk
    /\ res[r].err.msg = "operation failed"
    /\ LockValue = 0

\* C4: a run whose lock acquisition failed has written the LockRow at no
\* point: it did not set is_locked to 1 and issued no release; the step
\* that settles it leaves the lock table as it is.
C4_NoLockWrite ==
  [][\A r \in Runners :
       (~Settled(r) /\ Settled(r)' /\ res'[r].err.kind = "MigrationLocked") =>
         /\ obs'[r].lockWrites = 0
         /\ obs'[r].relIssued = 0
         /\ lockTable' = lockTable]_vars

\* C4 witness: the acquire of one runner failed while another runner held
\* the lock, and the LockRow is still HELD.
C4_Witness ==
  \E r1 \in Runners : \E r2 \in Runners :
    /\ Holding(r1)
    /\ ~run[r1].trx
    /\ Rejected(r2)
    /\ res[r2].err = LockHeldError
    /\ LockValue = 1

\* C5 as stated: no two migration records have the same name.
C5_UniqueNames ==
  \A i \in 1..Len(applied) : \A j \in 1..Len(applied) :
    i # j => applied[i].name # applied[j].name

\* A rollback() that succeeded right after a latest() of the same runner
\* had succeeded; obs.pre is the table as it was before that latest().
RoundTrip(r) == Fulfilled(r) /\ obs[r].chained

\* C6 as stated: a successful latest() followed by a successful rollback()
\* leaves the applied records as they were before latest(), also when
\* nothing was pending.
C6_RoundTripAlways ==
  \A r \in Runners : RoundTrip(r) => applied = obs[r].pre

\* C6 amended: the round trip restores the records when latest() applied at
\* least one migration; when nothing was pending, rollback() removes the
\* records of the highest batch that was there before.
C6_RoundTrip ==
  \A r \in Runners :
    RoundTrip(r) =>
      IF obs[r].upCount > 0
      THEN applied = obs[r].pre
      ELSE LET stays(row) == row.batch # maxBatch(obs[r].pre)
           IN applied = SelectSeq(obs[r].pre, stays)

\* C6 witness: a round trip over a table that was not empty, in which
\* latest() applied something.
C6_Witness ==
  \E r \in Runners :
    /\ RoundTrip(r)
    /\ obs[r].upCount > 0
    /\ obs[r].pre # << >>
    /\ applied = obs[r].pre

\* C7 as stated: the migration name reported as failed is the name of the
\* migration whose operation failed.
C7_ReportsFailedMigration ==
  \A r \in Runners :
    OperationFailed(r) => obs[r].reported = res[r].err.mig

C9_LockErrorOnlyWhenHeld ==
  \A r \in Runners :
    (Rejected(r) /\ res[r].err.kind = "MigrationLocked") => obs[r].observed = 1

\* C10: after a successful latest() or rollback(), the applied names are a
\* subset of the defined names.
C10_AppliedSubsetOfDefined ==
  \A r \in Runners : Fulfilled(r) => AppliedNames \subseteq Range(listAll)

\* C10 witness: a latest() that applied something has succeeded.
C10_Witness ==
  \E r \in Runners :
    /\ Fulfilled(r)
    /\ run[r].direction = "up"
    /\ run[r].log # << >>
    /\ Len(applied) >= 2

ValidationError(r) ==
  Rejected(r) /\ res[r].err.msg \in {"corrupt", "invalid migration"}

\* A migration of runner r's list lacks its up or its down operation.
HasInvalidShape(r) ==
  \E i \in 1..Len(run[r].migrations) :
    \/ ~migrationModules[run[r].migrations[i]].up
    \/ ~migrationModules[run[r].migrations[i]].down

\* C11 as stated: a run that failed with a validation error has written
\* nothing that persists: it made no committed write of the LockRow and the
\* migration records are as they were.
C11_ValidationWritesNothing ==
  \A r \in Runners :
    ValidationError(r) =>
      /\ run[r].trx \/ obs[r].lockWrites = 0
      /\ applied = obs[r].pre

\* C11 amended: a run that failed because an applied record has no
\* definition has written nothing; a run over a migration that lacks up or
\* down fails with the shape error before any operation and any record
\* mutation, but after it acquired the lock, and it issues one release.
C11_ValidationWritesNoRecord ==
  \A r \in Runners :
    Settled(r) =>
      /\ res[r].err.msg = "corrupt" =>
           /\ ~obs[r].acquired
           /\ obs[r].lockWrites = 0
           /\ obs[r].relIssued = 0
           /\ obs[r].opLog = << >>
           /\ applied = obs[r].pre
      /\ res[r].err.msg = "invalid migration" =>
           /\ obs[r].acquired
           /\ obs[r].lockWrites >= 1
           /\ obs[r].relIssued = 1
           /\ obs[r].opLog = << >>
           /\ applied = obs[r].pre
      /\ (obs[r].acquired /\ HasInvalidShape(r)) =>
           /\ res[r].err.msg = "invalid migration"
           /\ obs[r].opLog = << >>

\* C11 witness: outside a transaction, a run over a migration without a
\* down operation failed with the shape error after it had set the LockRow
\* to HELD, and its release brought the LockRow back to FREE.
C11_Witness ==
  \E r \in Runners :
    /\ Rejected(r)
    /\ res[r].err.msg = "invalid migration"
    /\ ~run[r].trx
    /\ obs[r].lockWrites = 2
    /\ obs[r].pre # << >>
    /\ LockValue = 0

\* C12: a forceFreeMigrationsLock() whose statements did not fail returns
\* success and leaves the LockRow FREE, whether it was FREE (the table is
\* then unchanged) or HELD (by whomever); an acquire is refused with the
\* lock-held error only when the LockRow is HELD, and only a successful
\* acquire turns a FREE LockRow into HELD, so the next acquire after the
\* forced release is not refused.
C12_ForceFree ==
  [][/\ \A r \in Runners :
          (pc[r] = "forceFree" /\ pc'[r] = "done") =>
            /\ obs'[r].relOk =>
                 /\ res'[r].status = "ok"
                 /\ \A i \in 1..Len(lockTable') : lockTable'[i] = 0
            /\ LockValue = 0 => (lockTable' = lockTable /\ LockValue' = 0)
            /\ obs'[r].relIssued = 0 => res'[r].status = "ok"
     /\ \A r \in Runners :
          (pc[r] = "isLocked" /\ pc'[r] = "catch" /\ run'[r].err = LockHeldError)
            => LockValue = 1
     /\ (LockValue = 0 /\ LockValue' = 1) =>
          \E r \in Runners :
            pc[r] = "lockMigrations" /\ pc'[r] = "prepare"]_vars

\* C12 witness: while one runner held the lock, another one forced it
\* free: the call succeeded, it found the LockRow HELD and left it FREE.
C12_Witness ==
  \E r1 \in Runners : \E r2 \in Runners :
    /\ Holding(r1)
    /\ ~run[r1].trx
    /\ Fulfilled(r2)
    /\ run[r2].direction = "force"
    /\ obs[r2].observed = 1
    /\ LockValue = 0

\* Runner r's current run has completed _ensureTable.
PastEnsureTable(r) == pc[r] \notin {"idle", "ensureTable", "ensureInsert"}

\* C13 as stated: once a runner has completed the lazy repair of
\* _ensureTable, the lock table holds exactly one row.
C13_ExactlyOneLockRow ==
  (\E r \in Runners : PastEnsureTable(r)) => Len(lockTable) = 1

\* Runner r's status() call has resolved, and nothing ran since.
StatusReturned(r) ==
  Fulfilled(r) /\ run[r].direction = "status" /\ ret[r].op = "status"

\* C14 as stated: status() returns the number of defined migrations minus
\* the number of applied records.
C14_StatusDefinedMinusApplied ==
  \A r \in Runners :
    StatusReturned(r) => ret[r].count = Len(listAll) - Len(applied)

\* C15: status() returns 0 if and only if there are as many applied
\* records as defined migrations.
C15_StatusZeroIffEqual ==
  \A r \in Runners :
    StatusReturned(r) => (ret[r].count = 0 <=> Len(applied) = Len(listAll))

\* C15 witness: status() returned 0 after latest() had applied the pending
\* migrations.
C15_Witness ==
  \E r \in Runners :
    /\ StatusReturned(r)
    /\ ret[r].count = 0
    /\ Len(applied) = NumMigrations
    /\ runs >= 1

VersionReturned(r) ==
  /\ Fulfilled(r)
  /\ run[r].direction = "currentVersion"
  /\ ret[r].op = "currentVersion"

\* The part before the first "_" of the name of the i-th applied record.
Prefix(i) == splitHead(fileName(applied[i].name))

\* C16: currentVersion() returns "none" when no record is applied, and
\* otherwise the prefix (the part of the name before its first "_") of an
\* applied record that no prefix of an applied record is greater than, in
\* the order of strings.
C16_CurrentVersion ==
  \A r \in Runners :
    VersionReturned(r) =>
      IF applied = << >> THEN ret[r].version = None
      ELSE /\ \E i \in 1..Len(applied) : ret[r].version = Prefix(i)
           /\ \A i \in 1..Len(applied) : ~gt(Prefix(i), ret[r].version)

\* C16 witness: with several applied records, currentVersion() returned a
\* prefix that is shorter than the prefix of another applied record.
C16_Witness ==
  \E r \in Runners :
    /\ VersionReturned(r)
    /\ Len(applied) >= 2
    /\ \E i \in 1..Len(applied) : Len(Prefix(i)) > Len(ret[r].version)
    /\ runs >= 1

\* C17: for every statement executed through query(), the 'query' event is
\* emitted once, before the statement is sent; when the execution fails,
\* 'query-error' is emitted once, before the caller sees the rejection, and
\* the error the caller receives is the object the driver raised, with the
\* rendered statement put in front of its message.
C17_QueryEvents ==
  client.query.op = "query" =>
    /\ client.query.status = "pending" =>
         client.events = << "query", "sent" >>
    /\ client.query.status = "resolved" =>
         client.events = << "query", "sent", "resolved" >>
    /\ client.query.status = "rejected" =>
         /\ client.events = << "query", "sent", "query-error", "rejected" >>
         /\ client.query.err.id = client.query.raised.id
         /\ client.query.err.id \in ErrorIds
         /\ client.query.err.class = client.query.raised.class
         /\ LET got == client.query.err.message
                old == client.query.raised.message
            IN /\ Len(got) > Len(old) + 1
               /\ SubSeq(got, Len(got) - Len(old) + 1, Len(got)) = old
               /\ got[Len(got) - Len(old)] = " - "

\* C17 witness: a statement failed in the driver and the caller has
\* received the rejection.
C17_Witness ==
  /\ client.query.op = "query"
  /\ client.query.status = "rejected"
  /\ client.query.raised = DriverError(NumErrors)
  /\ client.query.obj.bindings # << >>
  /\ Head(client.query.err.message) = "insert"

\* C18: acquireConnection fails with the connection-timeout error exactly
\* when the acquire of the pool timed out; it calls pool.acquire() once
\* when there is a pool and never again; a failure of the pool that is not
\* a timeout reaches the caller as the error the pool raised.
C18_AcquireTimeout ==
  client.call.op = "acquireConnection" =>
    /\ client.call.err.class = "Promise.TimeoutError"
         <=> client.call.outcome = "TimeoutError"
    /\ client.call.attempts = (IF client.call.outcome = "no pool" THEN 0 ELSE 1)
    /\ client.call.outcome = "Error" =>
         /\ client.call.status = "rejected"
         /\ client.call.err = client.call.raised
    /\ client.call.outcome = "TimeoutError" =>
         /\ client.call.status = "rejected"
         /\ client.call.err.id # client.call.raised.id
    /\ client.call.outcome = "connection" =>
         /\ client.call.status = "resolved"
         /\ client.call.conn \in client.used
    /\ client.call.outcome = "no pool" =>
         /\ client.call.status = "rejected"
         /\ client.call.err.class = "Error"

\* C18 witness: every connection is lent and the acquire ended with the
\* connection-timeout error.
C18_Witness ==
  /\ client.call.op = "acquireConnection"
  /\ client.used = Connections
  /\ client.call.outcome = "TimeoutError"
  /\ client.call.err.class = "Promise.TimeoutError"

\* C19 as stated: releaseConnection never throws, in any state of the
\* client.
C19_ReleaseNeverThrows ==
  client.call.op = "releaseConnection" => client.call.status = "resolved"

\* C20 as stated: a runner never executes the up operation of a migration
\* that is already recorded as applied (by another runner, before this
\* runner acquired the lock).
C20_NeverRunsApplied ==
  \A r \in Runners :
    (pc[r] = "operation" /\ run[r].direction = "up") =>
      current(r) \notin Range(mapName(visibleApplied(r)))

\* The names of the migration records that runner r's statements read.
VisibleNames(r) == Range(mapName(visibleApplied(r)))

\* C21: within a batch the operations are started in the order of the
\* list, one at a time: when the operation of a migration is started or
\* its record mutation is pending, the operations started so far are the
\* head of the list, all the earlier ones have completed and their record
\* mutations are persisted; a batch that succeeded has run the whole list
\* in its order.
C21_Sequential ==
  \A r \in Runners :
    /\ pc[r] \in {"operation", "record"} =>
         LET done == Len(run[r].log)
         IN /\ obs[r].opLog = SubSeq(run[r].migrations, 1, Len(obs[r].opLog))
            /\ Len(obs[r].opLog) = done + (IF pc[r] = "record" THEN 1 ELSE 0)
            /\ obs[r].opDone = obs[r].opLog
            /\ run[r].log = SubSeq(run[r].migrations, 1, done)
            /\ \A i \in 1..done :
                 IF run[r].direction = "up"
                 THEN run[r].migrations[i] \in VisibleNames(r)
                 ELSE run[r].migrations[i] \notin VisibleNames(r)
    /\ (Fulfilled(r) /\ run[r].direction \in {"up", "down"}) =>
         /\ obs[r].opLog = run[r].migrations
         /\ run[r].log = run[r].migrations

\* C21 witness: in a rollback of two migrations, the second operation is
\* about to start after the record of the first was deleted.
C21_Witness ==
  \E r \in Runners :
    /\ pc[r] = "operation"
    /\ run[r].direction = "down"
    /\ Len(run[r].migrations) = 2
    /\ Len(run[r].log) = 1
    /\ Len(applied) = Len(obs[r].start) - 1

\* The effects of the operations that runner r's run completed are
\* committed: always without the outer transaction of latest() (the plain
\* client or a dedicated transaction committed them), and with it once the
\* run has succeeded.
OperationsCommitted(r) == ~run[r].trx \/ Fulfilled(r)

\* The record mutation of name is in the committed migrations table.
Recorded(r, name) ==
  IF run[r].direction = "up" THEN name \in AppliedNames
  ELSE name \notin AppliedNames

\* C22 as stated: when a run has ended, every operation of it whose
\* effects are committed has its record mutation committed too.
C22_RecordWithOperation ==
  \A r \in Runners :
    (Settled(r) /\ OperationsCommitted(r)) =>
      \A i \in 1..Len(obs[r].opDone) : Recorded(r, obs[r].opDone[i])

\* C23 as stated: from the moment a runner's acquire has succeeded until
\* its run ends, the committed value of the LockRow is 1.
C23_CommittedHeld ==
  \A r \in Runners : Holding(r) => LockValue = 1

\* The rows of the table runner r's run started with whose batch is the
\* highest one, and the other rows.
TopBatch(r) ==
  LET top(row) == \A i \in 1..Len(obs[r].start) : obs[r].start[i].batch <= row.batch
  IN SelectSeq(obs[r].start, top)

BelowTop(r) ==
  LET below(row) == \E i \in 1..Len(obs[r].start) : obs[r].start[i].batch > row.batch
  IN SelectSeq(obs[r].start, below)

\* C24: a rollback() that succeeded has run the down operation of exactly
\* the records of the highest batch, the last inserted first, has deleted
\* those records, and has left the records of lower batches as they were.
C24_RollbackLastBatch ==
  \A r \in Runners :
    (Fulfilled(r) /\ run[r].direction = "down") =>
      /\ Len(obs[r].opLog) = Len(TopBatch(r))
      /\ \A i \in 1..Len(obs[r].opLog) :
           obs[r].opLog[i] = TopBatch(r)[Len(TopBatch(r)) + 1 - i].name
      /\ obs[r].opDone = obs[r].opLog
      /\ applied = BelowTop(r)

\* C24 witness: a rollback() of a batch of two records has succeeded, the
\* later record first.
C24_Witness ==
  \E r \in Runners :
    /\ Fulfilled(r)
    /\ run[r].direction = "down"
    /\ Len(obs[r].opLog) = 2
    /\ obs[r].opLog[1] > obs[r].opLog[2]
    /\ applied = << >>

\* The highest batch number among rows, 0 when there is no row.
TopBatchNumber(rows) ==
  IF rows = << >> THEN 0
  ELSE CHOOSE b \in { rows[i].batch : i \in 1..Len(rows) } :
         \A i \in 1..Len(rows) : rows[i].batch <= b

\* C25: the batch number a run computes after it acquired the lock is the
\* highest batch among the records it then reads, plus one for an "up"
\* batch and unchanged for a "down" batch; every record a latest() run
\* inserts carries that number, which is greater than the batch of every
\* record that was there before the run.
C25_BatchNumbers ==
  [][\A r \in Runners :
       /\ (pc[r] = "prepare" /\ pc'[r] \in {"operation", "freeLock"}) =>
            run'[r].batchNo =
              TopBatchNumber(visibleApplied(r))
                + (IF run[r].direction = "up" THEN 1 ELSE 0)
       /\ (/\ pc[r] = "record"
           /\ run[r].direction = "up"
           /\ Len(visibleApplied(r)') = Len(visibleApplied(r)) + 1) =>
            LET rows == visibleApplied(r)
                new == Last(visibleApplied(r)')
                before == Len(rows) - Len(run[r].log)
            IN /\ new.batch = run[r].batchNo
               /\ \A i \in 1..Len(rows) :
                    IF i <= before THEN rows[i].batch < new.batch
                    ELSE rows[i].batch = new.batch]_vars

\* C25 witness: a latest() run over a table whose highest batch was 1 has
\* inserted a record of batch 2.
C25_Witness ==
  \E r \in Runners :
    /\ Fulfilled(r)
    /\ run[r].direction = "up"
    /\ run[r].log # << >>
    /\ TopBatchNumber(obs[r].start) = 1
    /\ run[r].batchNo = 2
    /\ Last(applied).batch = 2

\* The effective transaction policy of a migration: its boolean override
\* when it has one, else the global setting.
EffectivePolicy(name, disableTransactions) ==
  CASE migrationModules[name].transaction = "true" -> TRUE
    [] migrationModules[name].transaction = "false" -> FALSE
    [] OTHER -> ~disableTransactions

\* C26: latest() runs the batch in one shared transaction if and only if
\* transactions are globally enabled and the effective policy of every
\* pending migration is "use transaction"; rollback() never does.
C26_SharedTransaction ==
  \A r \in Runners :
    /\ (pc[r] = "isLocked" /\ run[r].direction = "up") =>
         (run[r].trx <=>
            /\ ~run[r].disableTransactions
            /\ \A i \in 1..Len(run[r].migrations) :
                 EffectivePolicy(run[r].migrations[i], run[r].disableTransactions))
    /\ run[r].direction = "down" => ~run[r].trx

\* C26 witness: transactions are enabled, one of two pending migrations
\* overrides the policy with false, and latest() runs the batch without a
\* shared transaction.
C26_Witness ==
  \E r \in Runners :
    /\ pc[r] = "isLocked"
    /\ run[r].direction = "up"
    /\ ~run[r].disableTransactions
    /\ Len(run[r].migrations) = 2
    /\ ~run[r].trx

\* C27: the operation of a migration runs in a dedicated transaction
\* exactly when the batch has no outer transaction and the effective policy
\* of the migration is "use transaction"; otherwise it runs on the outer
\* transaction when there is one, or on the plain client.
C27_DedicatedTransaction ==
  \A r \in Runners :
    /\ Len(obs[r].opMode) = Len(obs[r].opLog)
    /\ \A i \in 1..Len(obs[r].opMode) :
         LET policy == EffectivePolicy(obs[r].opLog[i], run[r].disableTransactions)
         IN /\ obs[r].opMode[i] = "dedicated" <=> (~run[r].trx /\ policy)
            /\ obs[r].opMode[i] = "outer" <=> run[r].trx
            /\ obs[r].opMode[i] = "plain" <=> (~run[r].trx /\ ~policy)

\* C27 witness: in one batch without an outer transaction, one operation
\* ran on the plain client and the next in a dedicated transaction.
C27_Witness ==
  \E r \in Runners :
    /\ run[r].direction = "up"
    /\ ~run[r].disableTransactions
    /\ obs[r].opMode = << "plain", "dedicated" >>

\* C28: in a run whose batch holds a migration without an up or a down
\* operation, no operation of any migration of the batch is executed; once
\* the run has the lock it fails with the error that names a migration of
\* the batch lacking an operation, and the migration records are as they
\* were when the run started.
C28_ShapeCheckedFirst ==
  \A r \in Runners :
    HasInvalidShape(r) =>
      /\ obs[r].opLog = << >>
      /\ run[r].log = << >>
      /\ (Settled(r) /\ obs[r].acquired) =>
           /\ Rejected(r)
           /\ res[r].err.kind = "Error"
           /\ res[r].err.msg = "invalid migration"
           /\ \E i \in 1..Len(run[r].migrations) :
                /\ res[r].err.mig = run[r].migrations[i]
                /\ ~(migrationModules[res[r].err.mig].up
                     /\ migrationModules[res[r].err.mig].down)
           /\ applied = obs[r].start

\* C28 witness: the second migration of a batch of two lacks an operation;
\* the run has failed naming it, and the well-formed first migration was
\* not executed.
C28_Witness ==
  \E r \in Runners :
    /\ Rejected(r)
    /\ Len(run[r].migrations) = 2
    /\ res[r].err.msg = "invalid migration"
    /\ res[r].err.mig = run[r].migrations[2]
    /\ migrationModules[run[r].migrations[1]].up
    /\ migrationModules[run[r].migrations[1]].down
    /\ obs[r].opLog = << >>

\* C29: when latest() ran the batch inside one shared transaction and a
\* migration operation or a record insert failed, the run is rejected with
\* the transaction rolled back as a whole: the applied records are exactly
\* those from before the run, nothing of the transaction is left pending,
\* and every row of the lock table is FREE.
C29_SharedRollback ==
  \A r \in Runners :
    (/\ Rejected(r)
     /\ run[r].direction = "up"
     /\ run[r].trx
     /\ run[r].err.msg \in {"operation failed", "record failed"}) =>
      /\ applied = obs[r].start
      /\ trxState[r] = NoTrx
      /\ \A i \in 1..Len(lockTable) : lockTable[i] = 0
      /\ LockValue = 0

\* C29 witness: a batch of two in one shared transaction; the first
\* migration ran and its record was inserted in the transaction, then the
\* second failed and the run was rejected.
C29_Witness ==
  \E r \in Runners :
    /\ Rejected(r)
    /\ run[r].direction = "up"
    /\ run[r].trx
    /\ run[r].err.msg \in {"operation failed", "record failed"}
    /\ Len(run[r].migrations) = 2
    /\ obs[r].opDone = << run[r].migrations[1] >>
    /\ Len(obs[r].opLog) = 2
    /\ applied = obs[r].start

\* C30 as stated: under any interleaving of rollback() runs, a runner that
\* holds the lock executes the down operation of a migration only while
\* the record of that migration is still applied: a batch that another
\* runner rolled back in the meantime is not run down again.
C30_DownAtMostOnce ==
  \A r \in Runners :
    (pc[r] = "operation" /\ run[r].direction = "down") =>
      current(r) \in Range(mapName(applied))

\* The call on the pool that a step of the client has made, if any.
Called(op) == client'.call.op = op /\ client'.call # client.call

\* C31: the pool lifecycle of the Client, step by step.  initializePool
\* never replaces a pool the client has: no Pool is made and the lent
\* connections stay.  A destroy() that resolves leaves the client without
\* a pool, also when it had none before (a second destroy()); a destroy()
\* that rejects had a pool, leaves it set and rejects with the error of the
\* pool's destroy.  An acquireConnection of a client without a pool is
\* rejected at once with "Unable to acquire a connection", without a call
\* of pool.acquire(), and leaves the client without a pool.
C31_PoolLifecycle ==
  [][ /\ client.pool = "pool" =>
           /\ client'.made = client.made
           /\ Called("initializePool") =>
                /\ client'.pool = "pool"
                /\ client'.used = client.used
      /\ (Called("destroy") /\ client'.call.status = "resolved") =>
           client'.pool = "undefined"
      /\ (Called("destroy") /\ client.pool = "undefined") =>
           client'.call.status = "resolved"
      /\ (Called("destroy") /\ client'.call.status = "rejected") =>
           /\ client.pool = "pool"
           /\ client'.pool = "pool"
           /\ client'.made = client.made
           /\ client'.call.err = client'.call.raised
           /\ client'.call.raised.id \in ErrorIds
      /\ (Called("acquireConnection") /\ client.pool = "undefined") =>
           /\ client'.call.status = "rejected"
           /\ client'.call.err.class = "Error"
           /\ client'.call.err.message = << "Unable to acquire a connection" >>
           /\ client'.call.attempts = 0
           /\ client'.pool = "undefined"
           /\ client'.used = client.used
    ]_vars

\* C31 witness: the pool of the constructor was destroyed and an
\* acquireConnection after it was rejected for the lack of a pool.
C31_Witness ==
  /\ client.pool = "undefined"
  /\ client.made = 1
  /\ client.call.op = "acquireConnection"
  /\ client.call.status = "rejected"
  /\ client.call.err.message = << "Unable to acquire a connection" >>

\* The parameter names that a text refers to, from left to right: after
\* each "@", the "p" and the digits that follow it.
RECURSIVE nameAt(_)
nameAt(text) ==
  IF text = << >> \/ Head(text) \notin (Range(Digits) \cup {"p"}) THEN << >>
  ELSE << Head(text) >> \o nameAt(Tail(text))

RECURSIVE references(_)
references(text) ==
  IF text = << >> THEN << >>
  ELSE IF Head(text) = "@"
  THEN << nameAt(Tail(text)) >> \o references(Tail(text))
  ELSE references(Tail(text))

\* The text with every reference to a parameter put back to "?".
RECURSIVE unpositioned(_)
unpositioned(text) ==
  IF text = << >> THEN << >>
  ELSE IF Head(text) = "@"
  THEN << "?" >> \o unpositioned(SubSeq(text, 2 + Len(nameAt(Tail(text))), Len(text)))
  ELSE << Head(text) >> \o unpositioned(Tail(text))

\* The number of "?" of a text.
questionMarks(text) == Cardinality({ i \in 1..Len(text) : text[i] = "?" })

\* C32: in the MSSQL dialect, a statement with n "?" and n bindings is
\* sent with the i-th "?" (from 0, left to right) replaced by "@p<i>" and
\* everything else of the text as given, and with n parameters of pairwise
\* different names, the i-th named "p<i>" and holding the i-th binding: the
\* i-th reference of the text names the parameter that holds the i-th
\* binding.  positionBindings applied to the positioned text changes nothing.
C32_PositionalParameters ==
  LET req == client.req
      given == req.given
      n == questionMarks(given.sql)
      refs == references(req.sql)
  IN /\ (req.sent /\ Len(given.bindings) = n) =>
          /\ Len(refs) = n
          /\ Len(req.inputs) = n
          /\ unpositioned(req.sql) = given.sql
          /\ \A i \in 0..(n - 1) :
               /\ refs[i + 1] = << "p" >> \o str(i)
               /\ req.inputs[i + 1].name = refs[i + 1]
               /\ req.inputs[i + 1].value = given.bindings[i + 1]
          /\ \A i, j \in 1..n :
               req.inputs[i].name = req.inputs[j].name => i = j
     /\ client.query.op = "query" =>
          /\ client.query.obj.sql = positionBindings_MSSQL(given.sql)
          /\ positionBindings_MSSQL(client.query.obj.sql) = client.query.obj.sql

\* C32 witness: a statement with three "?" and three different bindings
\* was sent.
C32_Witness ==
  /\ client.req.sent
  /\ client.req.given.sql = << "?", "?", "?" >>
  /\ Len(client.req.inputs) = 3
  /\ \A i, j \in 1..3 :
       client.req.given.bindings[i] = client.req.given.bindings[j] => i = j

\* The timeouts that getPoolSettings chooses from: the client's
\* acquireConnectionTimeout, 60000 when it is not set (or set to 0), and
\* the pool configuration's acquireTimeoutMillis unless it is undefined.
Candidates(config) ==
  { IF config.acquireConnectionTimeout.defined
       /\ config.acquireConnectionTimeout.value # 0
    THEN config.acquireConnectionTimeout.value ELSE 60000 }
  \cup (IF config.pool.acquireTimeoutMillis.defined
        THEN { config.pool.acquireTimeoutMillis.value } ELSE {})

\* C33 as stated: the acquireTimeoutMillis of the pool settings is the
\* smallest positive value among the candidates, and it is a positive
\* number whatever the configuration.
C33_SmallestPositiveTimeout ==
  LET t == client.settings.acquireTimeoutMillis
      positive == { n \in Candidates(client.config) : n > 0 }
  IN /\ t > 0
     /\ t \in positive
     /\ \A n \in positive : t <= n

====
